---- MODULE Spec2Model ----
(***************************************************************************)
(* A model of the stateful core of the portfolio page (src/index.tsx):     *)
(* the throttler, the mobile navigation drawer of Header, the              *)
(* active-section tracker of LandingPage, the theme controller of App, the *)
(* typewriter of HeroSection, the visibility hook and the unmount of the   *)
(* page.  Time is counted in                                               *)
(* milliseconds; a timer fires at its due time, before the clock moves on, *)
(* and an event arriving at that same instant may come before or after it. *)
(* Every component has its own specification over the shared variables.    *)
(***************************************************************************)
EXTENDS Integers, Sequences, FiniteSets, TLC

VARIABLES
    now,                      \* Date.now() / the clock of setTimeout, in ms
    \* ---- throttle(func, limit): the closure's variables
    inThrottle,               \* let inThrottle: boolean
    lastFunc,                 \* let lastFunc: the handle of the last timer set
    lastRan,                  \* let lastRan: number
    timers,                   \* the browser's pending setTimeout timers
    calls,                    \* history: the calls made to the throttled function
    execs,                    \* history: the executions of the wrapped callback
    \* ---- Header: the mobile navigation drawer
    isScrolled,               \* useState(false)
    isMobileMenuReallyOpen,   \* useState(false)
    mobileMenuDisplayState,   \* useState('hidden')
    navTimers,                \* the pending timers set by the auto-advance effect
    navTimerId,               \* let timerId of the effect's last run
    navLog,                   \* history: the changes of mobileMenuDisplayState
    nUser,                    \* history: the number of user events so far
    lastEvent,                \* history: the last user event, [type, id]
    \* ---- LandingPage: the sections and the active-section tracker
    mounted,                  \* the sections whose element is in the document
    sectionRefs,              \* sectionRefs.current: the ids with an element
    observed,                 \* the targets of the tracker's observer, in order
    reported,                 \* per target, the status last notified
    inBand,                   \* the sections that overlap the central band now
    activeSectionId,          \* useState('hero')
    deliveries,               \* history: the batches of entries notified
    lastScrollRequest,        \* history: the last id passed to scrollToSection
    scrollTarget,             \* the section last scrolled into view
    \* ---- App: the theme controller
    devBuild,                 \* whether React.StrictMode re-runs the mount effects
    prefersDark,              \* matchMedia('(prefers-color-scheme: dark)').matches
    store,                    \* localStorage['portfolio-theme']
    dataTheme,                \* the data-theme attribute of html and body
    theme,                    \* useState('light'), as committed
    themeQueue,               \* the state updates queued for the next render
    themeEffects,             \* the effects still to run for the last commit
    initialStore,             \* history: the store before startup
    nToggles,                 \* history: the number of toggleTheme() calls
    \* ---- HeroSection: the typewriter
    typedNameChars,           \* useState([]): the characters shown
    currentIndex,             \* useState(0)
    isTypingForward,          \* useState(true)
    twTimers,                 \* the pending timers set by the typewriter effect
    twTimerId,                \* let timeoutId of the effect's last run
    twSince,                  \* history: ms since the shown text last changed
    twLast,                   \* history: the last change, "append" or "remove"
    \* ---- useIntersectionObserver: one use of the hook
    triggerOnce,              \* options.triggerOnce of the call site
    element,                  \* useState(null): the element bound by the ref
    isIntersecting,           \* useState(false): the visible signal
    visTargets,               \* the targets observer.current observes
    visLast,                  \* per target, the status the observer computed last
    visQueue,                 \* the entries queued in observer.current
    visStale,                 \* the entries left in a disconnected observer
    visInView,                \* the elements that intersect at the threshold now
    visHandled,               \* history: targets handled as intersecting since the bind
    visDelivered,             \* history: the last batch of entries delivered
    nVisEvents,               \* history: the number of scrolls and rebinds
    \* ---- the lifetime of the page's component tree
    pageMounted,              \* whether LandingPage (with Header and hero) is mounted
    execsAtUnmount            \* history: Len(execs) when the page unmounted

throttleVars == <<inThrottle, lastFunc, lastRan, timers, calls, execs>>

navVars == <<isScrolled, isMobileMenuReallyOpen, mobileMenuDisplayState,
             navTimers, navTimerId, navLog, nUser, lastEvent>>

trackerVars == <<mounted, sectionRefs, observed, reported, inBand,
                 activeSectionId, deliveries>>

scrollVars == <<lastScrollRequest, scrollTarget>>

themeVars == <<devBuild, prefersDark, store, dataTheme, theme, themeQueue,
               themeEffects, initialStore, nToggles>>

\* The variables of the components below the first three.
twVars == <<typedNameChars, currentIndex, isTypingForward, twTimers,
            twTimerId, twSince, twLast>>

visVars == <<triggerOnce, element, isIntersecting, visTargets, visLast,
             visQueue, visStale, visInView, visHandled, visDelivered, nVisEvents>>

lifeVars == <<pageMounted, execsAtUnmount>>

otherVars == <<themeVars, twVars, visVars, lifeVars>>

vars == <<now, throttleVars, navVars, trackerVars, scrollVars, otherVars>>

\* A `let` without an initializer, and the state of a useState(null).
Undefined == "undefined"

Min(a, b) == IF a <= b THEN a ELSE b
Max(a, b) == IF a >= b THEN a ELSE b

(***************************************************************************)
(* throttle                                                                *)
(***************************************************************************)

\* The interval the page passes to throttle: throttle(..., 50).
limit == 50

\* The granularity of the clock in the throttler's specification.
ThrottleTick == 10
\* The horizon of the throttler's clock.
ThrottleMaxTime == 160
\* How many calls of the throttled function a behaviour makes.
MaxCalls == 4

\* setTimeout(cb, delay): a delay below 0 counts as 0.
SetTimeout(ts, id, kind, delay, args) ==
    ts \cup {[id |-> id, kind |-> kind, due |-> now + Max(delay, 0), args |-> args]}

ClearTimeout_Noop(ts, id) == ts

\* clearTimeout(handle): no effect when the handle names no pending timer.
ClearTimeout(ts, id) == {tm \in ts : tm.id # id}

TrailingGuard_Strict(t, ran) == (t - ran) > limit

\* The test of the trailing callback: (Date.now() - lastRan) >= limit.
TrailingGuard(t, ran) == (t - ran) >= limit

\* The delay of the trailing timer: limit - (Date.now() - lastRan).
TrailingDelay(t, ran) == limit - (t - ran)

LastRanAfterTrailing_Stale(t, ran) == ran

\* The trailing callback's lastRan = Date.now().
LastRanAfterTrailing(t, ran) == t

\* History only: a quiet moment of the throttler. At least `limit` ms have
\* passed since the last execution, no call was made since it, no trailing
\* call is pending and no timer that is due waits to run.
Quiet ==
    /\ \A tm \in timers : tm.kind # "trailing" /\ tm.due > now
    /\ execs # <<>> =>
          /\ now - execs[Len(execs)].t >= limit
          /\ execs[Len(execs)].n = Len(calls)

\* One call of the function throttle returns; the k-th call carries args k.
ThrottledCall ==
    /\ Len(calls) < MaxCalls
    /\ now + limit <= ThrottleMaxTime
    /\ LET k == Len(calls) + 1 IN
       IF ~inThrottle
       THEN /\ execs' = Append(execs, [t |-> now, args |-> k, n |-> k, kind |-> "immediate"])
            /\ lastRan' = now
            /\ inThrottle' = TRUE
            /\ timers' = SetTimeout(timers, k, "reset", limit, k)
            /\ lastFunc' = k
            /\ calls' = Append(calls, [t |-> now, sync |-> TRUE, quiet |-> Quiet])
       ELSE /\ timers' = SetTimeout(ClearTimeout(timers, lastFunc), k, "trailing",
                                    TrailingDelay(now, lastRan), k)
            /\ lastFunc' = k
            /\ calls' = Append(calls, [t |-> now, sync |-> FALSE, quiet |-> Quiet])
            /\ UNCHANGED <<execs, lastRan, inThrottle>>
    /\ UNCHANGED <<now, navVars, trackerVars, scrollVars>>
    /\ UNCHANGED otherVars

\* The timer the event loop runs next: the earliest due, the oldest first.
NextDue(ts) ==
    {tm \in ts : /\ tm.due <= now
                 /\ \A o \in ts : o.due > tm.due \/ (o.due = tm.due /\ o.id >= tm.id)}

\* The callback of the timer of the immediate branch: inThrottle = false.
ResetTimerFire ==
    /\ \E tm \in NextDue(timers) :
          /\ tm.kind = "reset"
          /\ timers' = timers \ {tm}
          /\ inThrottle' = FALSE
    /\ UNCHANGED <<now, lastFunc, lastRan, calls, execs>>
    /\ UNCHANGED <<navVars, trackerVars, scrollVars>>
    /\ UNCHANGED otherVars

\* The callback of the timer of the coalescing branch.
TrailingTimerFire ==
    /\ \E tm \in NextDue(timers) :
          /\ tm.kind = "trailing"
          /\ timers' = timers \ {tm}
          /\ IF TrailingGuard(now, lastRan)
             THEN /\ execs' = Append(execs, [t |-> now, args |-> tm.args,
                                              n |-> Len(calls), kind |-> "trailing"])
                  /\ lastRan' = LastRanAfterTrailing(now, lastRan)
             ELSE UNCHANGED <<execs, lastRan>>
    /\ UNCHANGED <<now, inThrottle, lastFunc, calls>>
    /\ UNCHANGED <<navVars, trackerVars, scrollVars>>
    /\ UNCHANGED otherVars

\* The clock moves on, to the next tick or to the next timer's due time.
ThrottleAdvance ==
    /\ now < ThrottleMaxTime
    /\ \A tm \in timers : tm.due > now
    /\ LET target == Min(now + ThrottleTick, ThrottleMaxTime) IN
       now' = IF \E tm \in timers : tm.due < target
              THEN CHOOSE d \in {tm.due : tm \in timers} :
                       \A tm \in timers : d <= tm.due
              ELSE target
    /\ UNCHANGED <<throttleVars, navVars, trackerVars, scrollVars>>
    /\ UNCHANGED otherVars

InitThrottle ==
    /\ inThrottle = FALSE
    /\ lastFunc = Undefined
    /\ lastRan = Undefined
    /\ timers = {}
    /\ calls = <<>>
    /\ execs = <<>>

NextThrottle ==
    \/ ThrottledCall
    \/ ResetTimerFire
    \/ TrailingTimerFire
    \/ ThrottleAdvance

(***************************************************************************)
(* LandingPage.scrollToSection and the sections of the page                *)
(***************************************************************************)

\* The state value null.
Null == "null"

\* navItemsConfig: the ids of the sections, in document order.
Sections == <<"hero", "about", "skills", "projects", "certificates", "contact">>

SectionIds == {Sections[i] : i \in DOMAIN Sections}

\* scrollToSection(sectionId): scrolls only when the document has the element.
ScrollToSection(id) ==
    /\ lastScrollRequest' = id
    /\ scrollTarget' = IF id \in mounted THEN id ELSE scrollTarget

(***************************************************************************)
(* Header: the mobile navigation drawer                                    *)
(***************************************************************************)

\* The duration of ripple-open-anim.
RippleOpenMs == 600
\* The duration of ripple-close-anim.
RippleCloseMs == 500

\* The granularity of the clock in the drawer's specification.
NavTick == 100
\* The horizon of the drawer's clock.
NavMaxTime == 1500
\* How many user events a behaviour of the drawer makes.
MaxUserActions == 3

navCore == <<isMobileMenuReallyOpen, mobileMenuDisplayState, navTimers,
             navTimerId, navLog>>

NavEffectTimer_SwappedDelays(s, t) ==
    IF s = "opening" THEN {[target |-> "open", due |-> t + RippleCloseMs]}
    ELSE IF s = "closing" THEN {[target |-> "hidden", due |-> t + RippleOpenMs]}
    ELSE {}

NavEffectTimer_NoClosing(s, t) ==
    IF s = "opening" THEN {[target |-> "open", due |-> t + RippleOpenMs]}
    ELSE {}

\* The timer the auto-advance effect sets for display state s at time t.
NavEffectTimer(s, t) ==
    IF s = "opening" THEN {[target |-> "open", due |-> t + RippleOpenMs]}
    ELSE IF s = "closing" THEN {[target |-> "hidden", due |-> t + RippleCloseMs]}
    ELSE {}

CommitNav_NoCleanup(newState, newOpen, ts, by) ==
    /\ mobileMenuDisplayState' = newState
    /\ isMobileMenuReallyOpen' = newOpen
    /\ IF newState = mobileMenuDisplayState
       THEN /\ navTimers' = ts
            /\ UNCHANGED <<navTimerId, navLog>>
       ELSE /\ navTimers' = ts \cup NavEffectTimer(newState, now)
            /\ navTimerId' = NavEffectTimer(newState, now)
            /\ navLog' = Append(navLog, [state |-> newState, t |-> now, by |-> by])

\* The commit of a render of Header with the new state values, `ts` being the
\* pending timers: when mobileMenuDisplayState changed, the effect's cleanup
\* (clearTimeout(timerId)) and then the effect run.
\* `by` names the event, for the history.
CommitNav(newState, newOpen, ts, by) ==
    /\ mobileMenuDisplayState' = newState
    /\ isMobileMenuReallyOpen' = newOpen
    /\ IF newState = mobileMenuDisplayState
       THEN /\ navTimers' = ts
            /\ UNCHANGED <<navTimerId, navLog>>
       ELSE /\ navTimers' = (ts \ navTimerId) \cup NavEffectTimer(newState, now)
            /\ navTimerId' = NavEffectTimer(newState, now)
            /\ navLog' = Append(navLog, [state |-> newState, t |-> now, by |-> by])

OpenMobileMenu_StateOnly(by) == CommitNav("opening", isMobileMenuReallyOpen, navTimers, by)

OpenMobileMenu(by) == CommitNav("opening", TRUE, navTimers, by)

CloseMobileMenu_Hidden(by) == CommitNav("hidden", FALSE, navTimers, by)

CloseMobileMenu(by) == CommitNav("closing", FALSE, navTimers, by)

HandleToggleMobileMenu ==
    IF isMobileMenuReallyOpen
    THEN IF mobileMenuDisplayState \in {"open", "opening"}
         THEN CloseMobileMenu("toggle")
         ELSE UNCHANGED navCore
    ELSE IF mobileMenuDisplayState \in {"hidden", "closing"}
         THEN OpenMobileMenu("toggle")
         ELSE UNCHANGED navCore

NavLinkHandler_OnlyWhenFullyOpen(id) ==
    /\ ScrollToSection(id)
    /\ IF mobileMenuDisplayState = "open"
       THEN CloseMobileMenu("link")
       ELSE UNCHANGED navCore

NavLinkHandler(id) ==
    /\ ScrollToSection(id)
    /\ IF isMobileMenuReallyOpen
       THEN CloseMobileMenu("link")
       ELSE UNCHANGED navCore

\* aria-expanded of the toggle button, as Header renders it.
AriaExpanded == isMobileMenuReallyOpen \/ mobileMenuDisplayState = "opening"

\* aria-hidden of the nav element, as Header renders it.
AriaHidden == mobileMenuDisplayState = "hidden"

\* A user event of the drawer's specification is counted and recorded.
UserEvent(type, id) ==
    /\ nUser < MaxUserActions
    /\ now + RippleOpenMs <= NavMaxTime
    /\ nUser' = nUser + 1
    /\ lastEvent' = [type |-> type, id |-> id]

\* A click on the mobile-menu-toggle button.
ToggleClick ==
    /\ UserEvent("toggle", Null)
    /\ HandleToggleMobileMenu
    /\ UNCHANGED <<now, isScrolled, throttleVars, trackerVars, scrollVars>>
    /\ UNCHANGED otherVars

\* A click on the logo or on a link of either navigation list.
NavLinkClick ==
    /\ \E id \in SectionIds :
          /\ UserEvent("link", id)
          /\ NavLinkHandler(id)
    /\ UNCHANGED <<now, isScrolled, throttleVars, trackerVars>>
    /\ UNCHANGED otherVars

\* A scroll event of the window: handleScroll.
HeaderScroll ==
    /\ \E y \in BOOLEAN :
          /\ UserEvent("scroll", Null)
          /\ isScrolled' = y
    /\ UNCHANGED <<now, navCore, throttleVars, trackerVars, scrollVars>>
    /\ UNCHANGED otherVars

\* The callback of a timer of the auto-advance effect.
NavTimerFire ==
    /\ \E tm \in navTimers :
          /\ tm.due <= now
          /\ CommitNav(tm.target, isMobileMenuReallyOpen, navTimers \ {tm}, "timer")
    /\ UNCHANGED <<now, isScrolled, nUser, lastEvent>>
    /\ UNCHANGED <<throttleVars, trackerVars, scrollVars>>
    /\ UNCHANGED otherVars

\* The clock moves on, to the next tick or to the next timer's due time.
NavAdvance ==
    /\ now < NavMaxTime
    /\ \A tm \in navTimers : tm.due > now
    /\ LET target == Min(now + NavTick, NavMaxTime) IN
       now' = IF \E tm \in navTimers : tm.due < target
              THEN CHOOSE d \in {tm.due : tm \in navTimers} :
                       \A tm \in navTimers : d <= tm.due
              ELSE target
    /\ UNCHANGED <<throttleVars, navVars, trackerVars, scrollVars>>
    /\ UNCHANGED otherVars

InitNav ==
    /\ isScrolled = FALSE
    /\ isMobileMenuReallyOpen = FALSE
    /\ mobileMenuDisplayState = "hidden"
    /\ navTimers = {}
    /\ navTimerId = {}
    /\ navLog = <<[state |-> "hidden", t |-> 0, by |-> "init"]>>
    /\ nUser = 0
    /\ lastEvent = [type |-> "none", id |-> Null]

(***************************************************************************)
(* LandingPage: the active-section tracker                                 *)
(***************************************************************************)

\* How many adjacent sections can overlap the central band at once.
MaxBandRun == 2
\* How many notifications of the observer a behaviour delivers.
MaxDeliveries == 3

\* The sections behind React.lazy, which mount when Suspense resolves.
LazySections == SectionIds \ {"hero"}

\* The sets of sections of m that can overlap the band together: the band is
\* a horizontal strip, so they are adjacent in the document.
BandSets(m) ==
    {{}} \cup
    {r \in {{Sections[i] : i \in a..b} :
               a \in DOMAIN Sections, b \in DOMAIN Sections} :
        r # {} /\ r \subseteq m /\ Cardinality(r) <= MaxBandRun}

\* Object.values(currentRefs).forEach(refVal => { if (refVal) observe(refVal) }):
\* the targets, in the order of the ref callbacks (the document's order).
ObserveRefs(refs) == SelectSeq(Sections, LAMBDA id : id \in refs)

Status(id) == IF id \in inBand THEN "in" ELSE "out"

\* The entries the observer queues: one per target whose status differs from
\* the one last notified (a target never notified always gets one).
Entries ==
    LET changed == SelectSeq(observed, LAMBDA id : reported[id] # Status(id))
    IN  [i \in DOMAIN changed |-> [id |-> changed[i], isIntersecting |-> changed[i] \in inBand]]

RECURSIVE TrackerCallback_ClearsOnExit(_, _)
TrackerCallback_ClearsOnExit(entries, active) ==
    IF entries = <<>> THEN active
    ELSE TrackerCallback_ClearsOnExit(Tail(entries),
             IF Head(entries).isIntersecting THEN Head(entries).id ELSE Null)

\* entries.forEach(entry => { if (entry.isIntersecting) setActiveSectionId(id) }):
\* the state after the batch of updates.
RECURSIVE TrackerCallback(_, _)
TrackerCallback(entries, active) ==
    IF entries = <<>> THEN active
    ELSE TrackerCallback(Tail(entries),
             IF Head(entries).isIntersecting THEN Head(entries).id ELSE active)

\* The observer notifies: the callback runs on the queued entries.
ObserverDeliver ==
    /\ Len(deliveries) < MaxDeliveries
    /\ Entries # <<>>
    /\ activeSectionId' = TrackerCallback(Entries, activeSectionId)
    /\ reported' = [id \in DOMAIN reported |->
                       IF \E i \in DOMAIN observed : observed[i] = id
                       THEN Status(id) ELSE reported[id]]
    /\ deliveries' = Append(deliveries, Entries)
    /\ UNCHANGED <<mounted, sectionRefs, observed, inBand>>
    /\ UNCHANGED <<now, throttleVars, navVars, scrollVars>>
    /\ UNCHANGED otherVars

\* The page scrolls: other sections overlap the band.
PageScroll ==
    /\ \E b \in BandSets(mounted) : b # inBand /\ inBand' = b
    /\ UNCHANGED <<mounted, sectionRefs, observed, reported, activeSectionId, deliveries>>
    /\ UNCHANGED <<now, throttleVars, navVars, scrollVars>>
    /\ UNCHANGED otherVars

\* The lazy sections resolve and mount below the hero; SectionWrapper's
\* combinedRef passes each element to setSectionRef(id). The observer effect
\* has run by then and, its dependency list being empty, does not run again.
LazyMount ==
    /\ mounted = {"hero"}
    /\ mounted' = SectionIds
    /\ sectionRefs' = sectionRefs \cup LazySections
    /\ \E b \in BandSets(SectionIds) :
          /\ ("hero" \in b) = ("hero" \in inBand)
          /\ inBand' = b
    /\ UNCHANGED <<observed, reported, activeSectionId, deliveries>>
    /\ UNCHANGED <<now, throttleVars, navVars, scrollVars>>
    /\ UNCHANGED otherVars

\* A click on "View My Work" or "Get In Touch" of the hero.
HeroCtaClick ==
    /\ \E id \in {"projects", "contact"} : ScrollToSection(id)
    /\ UNCHANGED <<now, throttleVars, navVars, trackerVars>>
    /\ UNCHANGED otherVars

\* The page after LandingPage's first commit and its mount effects: the hero
\* is mounted and its ref set, the lazy sections are suspended, and the
\* observer effect has observed the refs it found.
InitPage ==
    /\ mounted = {"hero"}
    /\ sectionRefs = {"hero"}
    /\ observed = ObserveRefs(sectionRefs)
    /\ reported = [id \in SectionIds |-> Undefined]
    /\ inBand = {"hero"}
    /\ activeSectionId = "hero"
    /\ deliveries = <<>>
    /\ lastScrollRequest = Undefined
    /\ scrollTarget = Undefined

(***************************************************************************)
(* App: the theme controller                                               *)
(***************************************************************************)

\* How many times a behaviour calls toggleTheme().
MaxToggles == 3

\* localStorage.getItem of a key that is not set.
NoItem == "none"

Themes == {"light", "dark"}

FlipTheme_Sticky(t) == IF t = "light" THEN "dark" ELSE "dark"

\* prevTheme === 'light' ? 'dark' : 'light'
FlipTheme(t) == IF t = "light" THEN "dark" ELSE "light"

\* The effects of App's mount, in the order of their declaration; a
\* development build renders under React.StrictMode, which runs the mount
\* effects a second time right after the first (neither has a cleanup).
MountEffects(dev) ==
    IF dev THEN <<"startup", "persist", "startup", "persist">>
    ELSE <<"startup", "persist">>

\* The startup effect: the stored theme, else the system preference.
StartupUpdate(stored, dark) ==
    IF stored # NoItem THEN stored
    ELSE IF dark THEN "dark" ELSE "light"

PersistEffects_MountOnly(old, new) == <<>>

\* The persist effect has the dependency list [theme]: after a commit it runs
\* when the theme changed.
PersistEffects(old, new) == IF old # new THEN <<"persist">> ELSE <<>>

\* An update of the queue: a value (setTheme(v)) or "flip" (the updater of
\* toggleTheme).
ApplyUpdate(u, t) == IF u = "flip" THEN FlipTheme(t) ELSE u

RECURSIVE ApplyQueue(_, _)
ApplyQueue(q, t) ==
    IF q = <<>> THEN t ELSE ApplyQueue(Tail(q), ApplyUpdate(Head(q), t))

\* The next effect of the last commit runs.
ThemeEffectRun ==
    /\ themeEffects # <<>>
    /\ themeEffects' = Tail(themeEffects)
    /\ IF Head(themeEffects) = "startup"
       THEN /\ themeQueue' = Append(themeQueue, StartupUpdate(store, prefersDark))
            /\ UNCHANGED <<store, dataTheme>>
       ELSE /\ dataTheme' = theme
            /\ store' = theme
            /\ UNCHANGED themeQueue
    /\ UNCHANGED <<devBuild, prefersDark, theme, initialStore, nToggles>>
    /\ UNCHANGED <<now, throttleVars, navVars, trackerVars, scrollVars, twVars, visVars, lifeVars>>

\* App renders with the queued updates and commits; the effects of the
\* commit before have run by then.
ThemeRender ==
    /\ themeEffects = <<>>
    /\ themeQueue # <<>>
    /\ theme' = ApplyQueue(themeQueue, theme)
    /\ themeQueue' = <<>>
    /\ themeEffects' = PersistEffects(theme, theme')
    /\ UNCHANGED <<devBuild, prefersDark, store, dataTheme, initialStore, nToggles>>
    /\ UNCHANGED <<now, throttleVars, navVars, trackerVars, scrollVars, twVars, visVars, lifeVars>>

\* A click on a theme-toggle button: toggleTheme().
ToggleTheme ==
    /\ nToggles < MaxToggles
    /\ themeQueue' = Append(themeQueue, "flip")
    /\ nToggles' = nToggles + 1
    /\ UNCHANGED <<devBuild, prefersDark, store, dataTheme, theme, themeEffects, initialStore>>
    /\ UNCHANGED <<now, throttleVars, navVars, trackerVars, scrollVars, twVars, visVars, lifeVars>>

\* After App's first commit: any stored preference, system preference and
\* build; the mount effects are still to run.
InitTheme ==
    /\ devBuild \in BOOLEAN
    /\ prefersDark \in BOOLEAN
    /\ store \in Themes \cup {NoItem}
    /\ initialStore = store
    /\ dataTheme = NoItem
    /\ theme = "light"
    /\ themeQueue = <<>>
    /\ themeEffects = MountEffects(devBuild)
    /\ nToggles = 0

(***************************************************************************)
(* HeroSection: the typewriter.  Its cycle never ends, so its timers are   *)
(* kept by the time they have left and its clock has no horizon.           *)
(***************************************************************************)

\* const fullName = "Shivam Kumar"
fullName == <<"S", "h", "i", "v", "a", "m", " ", "K", "u", "m", "a", "r">>

typingSpeed == 120
backspaceSpeed == 70
pauseAtEndDuration == 1500

\* The granularity of the typewriter's clock.
TwTick == 10

\* fullName[i] of the source (indices from 0); undefined outside the string.
CharAt(i) == IF i + 1 \in DOMAIN fullName THEN fullName[i + 1] ELSE Undefined

\* prev.slice(0, -1)
SliceOffLast(chars) == SubSeq(chars, 1, Len(chars) - 1)

TwEffect_TypesPastEnd(idx, fwd, id) ==
    IF fwd
    THEN IF idx <= Len(fullName)
         THEN {[id |-> id, kind |-> "type", idx |-> idx, left |-> typingSpeed]}
         ELSE {[id |-> id, kind |-> "toBackward", idx |-> idx, left |-> pauseAtEndDuration]}
    ELSE IF idx > 0
         THEN {[id |-> id, kind |-> "back", idx |-> idx, left |-> backspaceSpeed]}
         ELSE {[id |-> id, kind |-> "toForward", idx |-> idx, left |-> pauseAtEndDuration]}

TwEffect_StopsWhenEmpty(idx, fwd, id) ==
    IF fwd
    THEN IF idx < Len(fullName)
         THEN {[id |-> id, kind |-> "type", idx |-> idx, left |-> typingSpeed]}
         ELSE {[id |-> id, kind |-> "toBackward", idx |-> idx, left |-> pauseAtEndDuration]}
    ELSE IF idx > 0
         THEN {[id |-> id, kind |-> "back", idx |-> idx, left |-> backspaceSpeed]}
         ELSE {}

TwEffect_SwappedSpeeds(idx, fwd, id) ==
    IF fwd
    THEN IF idx < Len(fullName)
         THEN {[id |-> id, kind |-> "type", idx |-> idx, left |-> backspaceSpeed]}
         ELSE {[id |-> id, kind |-> "toBackward", idx |-> idx, left |-> pauseAtEndDuration]}
    ELSE IF idx > 0
         THEN {[id |-> id, kind |-> "back", idx |-> idx, left |-> typingSpeed]}
         ELSE {[id |-> id, kind |-> "toForward", idx |-> idx, left |-> pauseAtEndDuration]}

\* The timer the typewriter effect sets when it runs with currentIndex = idx
\* and isTypingForward = fwd; the callback keeps idx in its closure.
TwEffect(idx, fwd, id) ==
    IF fwd
    THEN IF idx < Len(fullName)
         THEN {[id |-> id, kind |-> "type", idx |-> idx, left |-> typingSpeed]}
         ELSE {[id |-> id, kind |-> "toBackward", idx |-> idx, left |-> pauseAtEndDuration]}
    ELSE IF idx > 0
         THEN {[id |-> id, kind |-> "back", idx |-> idx, left |-> backspaceSpeed]}
         ELSE {[id |-> id, kind |-> "toForward", idx |-> idx, left |-> pauseAtEndDuration]}

\* A timer of the typewriter fires: its callback's state updates, the render,
\* and, as a dependency changed, the effect's cleanup (clearTimeout(timeoutId))
\* and the effect's next run.
TwTimerFire ==
    /\ \E tm \in twTimers :
          /\ tm.left = 0
          /\ typedNameChars' =
                CASE tm.kind = "type" -> Append(typedNameChars, CharAt(tm.idx))
                  [] tm.kind = "back" -> SliceOffLast(typedNameChars)
                  [] OTHER -> typedNameChars
          /\ currentIndex' =
                CASE tm.kind = "type" -> currentIndex + 1
                  [] tm.kind = "back" -> currentIndex - 1
                  [] OTHER -> currentIndex
          /\ isTypingForward' =
                CASE tm.kind = "toBackward" -> FALSE
                  [] tm.kind = "toForward" -> TRUE
                  [] OTHER -> isTypingForward
          /\ twTimerId' = 1 - twTimerId
          /\ twTimers' = {o \in twTimers \ {tm} : o.id # twTimerId}
                            \cup TwEffect(currentIndex', isTypingForward', twTimerId')
          /\ twLast' = CASE tm.kind = "type" -> "append"
                         [] tm.kind = "back" -> "remove"
                         [] OTHER -> twLast
          /\ twSince' = IF tm.kind \in {"type", "back"} THEN 0 ELSE twSince
    /\ UNCHANGED <<now, throttleVars, navVars, trackerVars, scrollVars, themeVars, visVars, lifeVars>>

\* Time passes, up to the next tick or the next timer's due time.
TwAdvance ==
    /\ twTimers # {}
    /\ \A tm \in twTimers : tm.left > 0
    /\ LET d == CHOOSE d \in {TwTick} \cup {tm.left : tm \in twTimers} :
                   /\ d <= TwTick
                   /\ \A tm \in twTimers : d <= tm.left
       IN /\ twTimers' = {[tm EXCEPT !.left = @ - d] : tm \in twTimers}
          /\ twSince' = twSince + d
    /\ UNCHANGED <<typedNameChars, currentIndex, isTypingForward, twTimerId, twLast>>
    /\ UNCHANGED <<now, throttleVars, navVars, trackerVars, scrollVars, themeVars, visVars, lifeVars>>

\* After HeroSection's mount: the effect has run once.
InitTypewriter ==
    /\ typedNameChars = <<>>
    /\ currentIndex = 0
    /\ isTypingForward = TRUE
    /\ twTimerId = 0
    /\ twTimers = TwEffect(0, TRUE, 0)
    /\ twSince = 0
    /\ twLast = "none"

(***************************************************************************)
(* useIntersectionObserver: one use of the hook                            *)
(***************************************************************************)

\* The elements the ref of one call site is bound to over time.
Elements == {"e1", "e2"}

\* How many entries an observer queues before they are delivered.
MaxQueued == 2
\* How many scrolls and rebinds a behaviour has.
MaxVisEvents == 4

VisStatus(inView, el) == IF el \in inView THEN "in" ELSE "out"

VisEntry(inView, el) == [target |-> el, isIntersecting |-> el \in inView]

\* The entry the callback looks at: ([entry]) => ..., the first of the batch.
HandledEntry(entries) == Head(entries)

VisCallbackState_Reversible(entries, once, cur) ==
    HandledEntry(entries).isIntersecting

\* The visible signal after the callback ran on a batch of entries.
VisCallbackState(entries, once, cur) ==
    IF HandledEntry(entries).isIntersecting THEN TRUE
    ELSE IF ~once THEN FALSE
    ELSE cur

VisCallbackTargets_KeepsObserving(entries, once, targets) == targets

\* The targets of observer.current after the callback ran on a batch of
\* entries: observer.current.unobserve(entry.target) under triggerOnce.
VisCallbackTargets(entries, once, targets) ==
    IF HandledEntry(entries).isIntersecting /\ once
    THEN targets \ {HandledEntry(entries).target}
    ELSE targets

\* The ref callback passes a new element (or null) to setElement; the render
\* commits and the effect runs: it disconnects the observer, and for an
\* element it makes a new observer and observes the element.  The entries
\* the old observer had queued are dropped or still delivered later.
VisBind ==
    /\ nVisEvents < MaxVisEvents
    /\ \E el \in (Elements \cup {Null}) \ {element} :
          /\ element' = el
          /\ visTargets' = IF el = Null THEN {} ELSE {el}
    /\ \E keep \in BOOLEAN :
          /\ keep => (visStale = <<>> /\ visQueue # <<>>)
          /\ visStale' = IF keep THEN visQueue ELSE visStale
    /\ visQueue' = <<>>
    /\ visLast' = [e \in Elements |-> Undefined]
    /\ visHandled' = {}
    /\ nVisEvents' = nVisEvents + 1
    /\ UNCHANGED <<triggerOnce, isIntersecting, visInView, visDelivered>>
    /\ UNCHANGED <<now, throttleVars, navVars, trackerVars, scrollVars, themeVars, twVars, lifeVars>>

\* The page scrolls or is laid out anew: other elements intersect.
VisScroll ==
    /\ nVisEvents < MaxVisEvents
    /\ \E s \in SUBSET Elements :
          /\ s # visInView
          /\ visInView' = s
    /\ nVisEvents' = nVisEvents + 1
    /\ UNCHANGED <<triggerOnce, element, isIntersecting, visTargets, visLast,
                   visQueue, visStale, visHandled, visDelivered>>
    /\ UNCHANGED <<now, throttleVars, navVars, trackerVars, scrollVars, themeVars, twVars, lifeVars>>

\* The browser updates the rendering: the observer queues an entry for every
\* target whose status is not the one it computed last (the first time, any).
VisCompute ==
    /\ Len(visQueue) < MaxQueued
    /\ \E el \in visTargets :
          /\ visLast[el] # VisStatus(visInView, el)
          /\ visLast' = [visLast EXCEPT ![el] = VisStatus(visInView, el)]
          /\ visQueue' = Append(visQueue, VisEntry(visInView, el))
    /\ UNCHANGED <<triggerOnce, element, isIntersecting, visTargets, visStale,
                   visInView, visHandled, visDelivered, nVisEvents>>
    /\ UNCHANGED <<now, throttleVars, navVars, trackerVars, scrollVars, themeVars, twVars, lifeVars>>

\* The observer's callback runs on a batch of entries.
VisCallback(entries, stale) ==
    /\ isIntersecting' = VisCallbackState(entries, triggerOnce, isIntersecting)
    /\ visTargets' = VisCallbackTargets(entries, triggerOnce, visTargets)
    /\ visHandled' = IF HandledEntry(entries).isIntersecting /\ ~stale
                     THEN visHandled \cup {HandledEntry(entries).target}
                     ELSE visHandled
    /\ visDelivered' = [entries |-> entries, stale |-> stale]

\* The browser notifies observer.current of its queued entries.
VisDeliver ==
    /\ visQueue # <<>>
    /\ VisCallback(visQueue, FALSE)
    /\ visQueue' = <<>>
    /\ UNCHANGED <<triggerOnce, element, visLast, visStale, visInView, nVisEvents>>
    /\ UNCHANGED <<now, throttleVars, navVars, trackerVars, scrollVars, themeVars, twVars, lifeVars>>

\* The browser notifies a disconnected observer of the entries left in it.
VisDeliverStale ==
    /\ visStale # <<>>
    /\ VisCallback(visStale, TRUE)
    /\ visStale' = <<>>
    /\ UNCHANGED <<triggerOnce, element, visLast, visQueue, visInView, nVisEvents>>
    /\ UNCHANGED <<now, throttleVars, navVars, trackerVars, scrollVars, themeVars, twVars, lifeVars>>

\* After the mount of the component that uses the hook, before its ref is
\* bound: no element, no observer.
InitVisibility ==
    /\ triggerOnce \in BOOLEAN
    /\ element = Null
    /\ isIntersecting = FALSE
    /\ visTargets = {}
    /\ visLast = [e \in Elements |-> Undefined]
    /\ visQueue = <<>>
    /\ visStale = <<>>
    /\ visInView \in SUBSET Elements
    /\ visHandled = {}
    /\ visDelivered = [entries |-> <<>>, stale |-> FALSE]
    /\ nVisEvents = 0

(***************************************************************************)
(* The unmount of the page                                                 *)
(***************************************************************************)

\* observer.unobserve(refVal) for every element the refs hold.
UnobserveRefs(obs, refs) == SelectSeq(obs, LAMBDA id : id \notin refs)

\* The mousemove listener of LandingPage calls the throttled setMousePos; it
\* is registered while the page is mounted.
MouseMove ==
    /\ pageMounted
    /\ ThrottledCall

\* LandingPage unmounts with Header and the hero.  The refs are detached
\* (every ref callback is called with null) and then the cleanups of the
\* effects run: Header clears the timer of its auto-advance effect, the
\* typewriter clears its timer, the hook disconnects its observer, the
\* tracker unobserves the elements its refs still hold, and the mousemove
\* listener is removed.  No cleanup touches the timers of throttle.
Unmount ==
    /\ pageMounted
    /\ pageMounted' = FALSE
    /\ execsAtUnmount' = Len(execs)
    /\ navTimers' = navTimers \ navTimerId
    /\ navTimerId' = {}
    /\ twTimers' = {o \in twTimers : o.id # twTimerId}
    /\ visTargets' = {}
    /\ \E keep \in BOOLEAN :
          /\ keep => (visStale = <<>> /\ visQueue # <<>>)
          /\ visStale' = IF keep THEN visQueue ELSE visStale
    /\ visQueue' = <<>>
    /\ mounted' = {}
    /\ sectionRefs' = {}
    /\ observed' = UnobserveRefs(observed, sectionRefs')
    /\ UNCHANGED <<now, throttleVars, scrollVars, themeVars>>
    /\ UNCHANGED <<isScrolled, isMobileMenuReallyOpen, mobileMenuDisplayState,
                   navLog, nUser, lastEvent>>
    /\ UNCHANGED <<reported, inBand, activeSectionId, deliveries>>
    /\ UNCHANGED <<typedNameChars, currentIndex, isTypingForward, twTimerId,
                   twSince, twLast>>
    /\ UNCHANGED <<triggerOnce, element, isIntersecting, visLast, visInView,
                   visHandled, visDelivered, nVisEvents>>

InitLife ==
    /\ pageMounted = TRUE
    /\ execsAtUnmount = 0

(***************************************************************************)
(* Specifications                                                          *)
(***************************************************************************)

Init ==
    /\ now = 0
    /\ InitThrottle
    /\ InitNav
    /\ InitPage
    /\ InitTheme
    /\ InitTypewriter
    /\ InitVisibility
    /\ InitLife

\* The environment of the theme controller in the specifications of the other
\* components: a production build, no stored theme, no dark preference.
ThemeEnvFixed == ~devBuild /\ ~prefersDark /\ store = NoItem

\* The hook's call site and geometry in the specifications of the other
\* components: SectionWrapper's options, nothing in view.
VisEnvFixed == ~triggerOnce /\ visInView = {}

\* In the specification of one component the other components start from
\* one environment.
InitEnvFixed == Init /\ ThemeEnvFixed /\ VisEnvFixed

\* The initial states of the theme controller's specification.
InitAnyTheme == Init /\ VisEnvFixed

\* The initial states of the hook's specification.
InitAnyVisibility == Init /\ ThemeEnvFixed

SpecThrottle == InitEnvFixed /\ [][NextThrottle]_vars

\* The event loop runs every timer that is due, and time passes.
FairSpecThrottle ==
    /\ SpecThrottle
    /\ WF_vars(ResetTimerFire)
    /\ WF_vars(TrailingTimerFire)
    /\ WF_vars(ThrottleAdvance)

NextNav ==
    \/ ToggleClick
    \/ NavLinkClick
    \/ HeaderScroll
    \/ NavTimerFire
    \/ NavAdvance

SpecNav == InitEnvFixed /\ [][NextNav]_vars

\* The event loop runs every timer that is due, and time passes.
FairSpecNav ==
    /\ SpecNav
    /\ WF_vars(NavTimerFire)
    /\ WF_vars(NavAdvance)

NextTracker ==
    \/ LazyMount
    \/ PageScroll
    \/ ObserverDeliver
    \/ HeroCtaClick

SpecTracker == InitEnvFixed /\ [][NextTracker]_vars

NextTheme ==
    \/ ThemeEffectRun
    \/ ThemeRender
    \/ ToggleTheme

SpecTheme == InitAnyTheme /\ [][NextTheme]_vars

NextUnmount ==
    \/ MouseMove
    \/ ResetTimerFire
    \/ TrailingTimerFire
    \/ ThrottleAdvance
    \/ Unmount

SpecUnmount == InitEnvFixed /\ [][NextUnmount]_vars

NextVisibility ==
    \/ VisBind
    \/ VisScroll
    \/ VisCompute
    \/ VisDeliver
    \/ VisDeliverStale

SpecVisibility == InitAnyVisibility /\ [][NextVisibility]_vars

NextTypewriter ==
    \/ TwTimerFire
    \/ TwAdvance

SpecTypewriter == InitEnvFixed /\ [][NextTypewriter]_vars

\* The event loop runs every timer that is due, and time passes.
FairSpecTypewriter ==
    /\ SpecTypewriter
    /\ WF_vars(TwTimerFire)
    /\ WF_vars(TwAdvance)

(***************************************************************************)
(* Properties of throttle                                                  *)
(***************************************************************************)

NoTimerPending == timers = {}

\* The calls of the scenario: at times 0, 10, 20 and 60.
ScenarioCalls ==
    /\ Len(calls) = 4
    /\ calls[1].t = 0 /\ calls[2].t = 10 /\ calls[3].t = 20 /\ calls[4].t = 60

ExecAt(i, t, args) == execs[i].t = t /\ execs[i].args = args

\* C1, as stated: after calls at 0, 10, 20 and 60 with limit 50 the callback
\* runs exactly twice, at 0 with the first call's arguments and once more
\* with the latest arguments, and never a third time.
C1_ExactlyTwoExecutions ==
    ScenarioCalls =>
        /\ Len(execs) <= 2
        /\ NoTimerPending =>
              /\ Len(execs) = 2
              /\ ExecAt(1, 0, 1)
              /\ execs[2].args = 4

\* C1, amended: after calls at 0, 10, 20 and 60 with limit 50 the callback
\* runs exactly three times: at 0 with the first call's arguments, at 50 with
\* the third call's arguments (the trailing call of the burst) and at 100
\* with the fourth call's arguments.
C1_ThreeExecutions ==
    ScenarioCalls =>
        /\ Len(execs) \in {2, 3}
        /\ ExecAt(1, 0, 1)
        /\ ExecAt(2, 50, 3)
        /\ Len(execs) = 3 => ExecAt(3, 100, 4)
        /\ (now >= 100 /\ NoTimerPending) => Len(execs) = 3
        /\ now < 100 => Len(execs) = 2

C1_Witness ==
    ScenarioCalls /\ NoTimerPending /\ Len(execs) = 3 /\ now > 100

\* C2, as stated: a call made in a quiet period (at least limit ms since the
\* last execution, no call since, no trailing call pending) runs the callback
\* synchronously, inside the call, whichever quiet period it is.
C2_QuietCallRunsSynchronously ==
    \A k \in DOMAIN calls : calls[k].quiet => calls[k].sync

\* C3: any two executions of the callback, immediate or trailing, are at
\* least limit ms apart.
C3_ExecutionsLimitApart ==
    \A i, j \in DOMAIN execs : i < j => execs[j].t - execs[i].t >= limit

C3_Witness ==
    /\ Len(execs) >= 3
    /\ \E i, j \in DOMAIN execs :
          /\ j = i + 1
          /\ execs[j].t - execs[i].t = limit
          /\ execs[i].kind = "immediate"
          /\ execs[j].kind = "trailing"
    /\ \E i \in DOMAIN execs : i > 1 /\ execs[i].kind = "immediate"

Coalesced(k) == k \in DOMAIN calls /\ ~calls[k].sync
FinalCall(k) == k = Len(calls)
Executed(k) == \E i \in DOMAIN execs : execs[i].args = k

\* The safety half of C4: the callback only ever runs with the arguments of
\* the latest call made so far; a coalesced call that is the last one so far
\* has run or has its trailing timer pending, due at most limit ms after the
\* call; and when it ran, it ran at most limit ms after the call.
C4_Safety ==
    /\ \A i \in DOMAIN execs : execs[i].args = execs[i].n
    /\ \A k \in DOMAIN calls :
          (Coalesced(k) /\ FinalCall(k) /\ ~Executed(k)) =>
              \E tm \in timers :
                  /\ tm.kind = "trailing" /\ tm.args = k
                  /\ tm.due <= calls[k].t + limit
                  /\ now <= tm.due
    /\ \A k \in DOMAIN calls : \A i \in DOMAIN execs :
          (Coalesced(k) /\ execs[i].args = k) => execs[i].t <= calls[k].t + limit

\* C4: the final call of a burst is never dropped. If it arrived during the
\* cooldown, the callback eventually runs with that call's arguments, at most
\* limit ms after the call, and never with earlier coalesced arguments.
C4_FinalCallFires ==
    /\ []C4_Safety
    /\ \A k \in 1..MaxCalls :
          (Coalesced(k) /\ FinalCall(k)) ~> (Executed(k) \/ ~FinalCall(k))

C4_Witness ==
    \E k \in DOMAIN calls : \E i \in DOMAIN execs :
        /\ Coalesced(k) /\ FinalCall(k)
        /\ k > 2 /\ Coalesced(k - 1) /\ ~Executed(k - 1)
        /\ execs[i].args = k /\ execs[i].kind = "trailing"
        /\ execs[i].t = calls[k].t + limit

(***************************************************************************)
(* Properties of the mobile navigation drawer                              *)
(***************************************************************************)

CycleTransitions ==
    {<<"hidden", "opening">>, <<"opening", "open">>,
     <<"open", "closing">>, <<"closing", "hidden">>}

CodeTransitions ==
    CycleTransitions \cup {<<"opening", "closing">>, <<"closing", "opening">>}

LoggedTransitions ==
    {<<navLog[i].state, navLog[i + 1].state>> : i \in 1..(Len(navLog) - 1)}

\* C5, as stated: every change of mobileMenuDisplayState is one of
\* hidden->opening, opening->open, open->closing, closing->hidden.
C5_OnlyCycleTransitions ==
    [][mobileMenuDisplayState' # mobileMenuDisplayState =>
          <<mobileMenuDisplayState, mobileMenuDisplayState'>> \in CycleTransitions]_vars

\* C5, amended: every change of mobileMenuDisplayState is one of
\* hidden->opening, opening->open, open->closing, closing->hidden,
\* opening->closing (a toggle or a link selection while opening) and
\* closing->opening (a toggle while closing).
C5_OnlyCodeTransitions ==
    [][mobileMenuDisplayState' # mobileMenuDisplayState =>
          <<mobileMenuDisplayState, mobileMenuDisplayState'>> \in CodeTransitions]_vars

C5_Witness ==
    /\ <<"opening", "closing">> \in LoggedTransitions
    /\ <<"closing", "opening">> \in LoggedTransitions
    /\ <<"opening", "open">> \in LoggedTransitions

EnteredAt == navLog[Len(navLog)].t

IsUserStep == nUser' = nUser + 1

\* While the drawer is opening, the timer to open is pending, due 600 ms
\* after the drawer began to open, and the clock has not passed it.
OpeningTimed ==
    mobileMenuDisplayState = "opening" =>
        /\ now <= EnteredAt + RippleOpenMs
        /\ \E tm \in navTimers : tm.target = "open" /\ tm.due = EnteredAt + RippleOpenMs

\* A toggle while hidden opens at once; opening becomes open exactly 600 ms
\* after it began, by the timer and by no user event.
C6_OpenStep ==
    /\ (IsUserStep /\ lastEvent'.type = "toggle" /\ mobileMenuDisplayState = "hidden")
          => mobileMenuDisplayState' = "opening"
    /\ (mobileMenuDisplayState = "opening" /\ mobileMenuDisplayState' = "open")
          => (now = EnteredAt + RippleOpenMs /\ ~IsUserStep)
    /\ (mobileMenuDisplayState = "opening" /\ mobileMenuDisplayState' # "opening" /\ ~IsUserStep)
          => mobileMenuDisplayState' = "open"

\* C6, as stated: from hidden one toggle gives opening at once and open
\* exactly 600 ms later; while opening, the only user event that changes the
\* state is another toggle, which forces closing.
C6_OnlyToggleDuringOpening ==
    /\ []OpeningTimed
    /\ [][/\ C6_OpenStep
          /\ (mobileMenuDisplayState = "opening" /\ mobileMenuDisplayState' # "opening" /\ IsUserStep)
                => (lastEvent'.type = "toggle" /\ mobileMenuDisplayState' = "closing")]_vars

\* C6, amended: from hidden one toggle gives opening at once and open exactly
\* 600 ms later; while opening, the only user events that change the state
\* are another toggle and the selection of a navigation link, and each
\* forces closing.
C6_ToggleOrLinkDuringOpening ==
    /\ []OpeningTimed
    /\ [][/\ C6_OpenStep
          /\ (mobileMenuDisplayState = "opening" /\ mobileMenuDisplayState' # "opening" /\ IsUserStep)
                => (lastEvent'.type \in {"toggle", "link"} /\ mobileMenuDisplayState' = "closing")]_vars

C6_Witness ==
    /\ Len(navLog) = 5
    /\ navLog[2] = [state |-> "opening", t |-> 0, by |-> "toggle"]
    /\ navLog[3].state = "closing" /\ navLog[3].by = "link"
    /\ navLog[4].state = "opening" /\ navLog[4].by = "toggle"
    /\ navLog[5] = [state |-> "open", t |-> navLog[4].t + RippleOpenMs, by |-> "timer"]

\* While the drawer is in a transient state its timer is pending, due 600 ms
\* after it began to open or 500 ms after it began to close, and the clock
\* has not passed it; a change made by a timer is opening->open, 600 ms after
\* opening began, or closing->hidden, 500 ms after closing began.
C7_Safety ==
    /\ OpeningTimed
    /\ mobileMenuDisplayState = "closing" =>
          /\ now <= EnteredAt + RippleCloseMs
          /\ \E tm \in navTimers : tm.target = "hidden" /\ tm.due = EnteredAt + RippleCloseMs
    /\ \A i \in 2..Len(navLog) :
          navLog[i].by = "timer" =>
              \/ /\ navLog[i - 1].state = "opening" /\ navLog[i].state = "open"
                 /\ navLog[i].t = navLog[i - 1].t + RippleOpenMs
              \/ /\ navLog[i - 1].state = "closing" /\ navLog[i].state = "hidden"
                 /\ navLog[i].t = navLog[i - 1].t + RippleCloseMs

\* C7: the transient states advance on their own: opening becomes open after
\* 600 ms and closing becomes hidden after 500 ms when no user event comes;
\* under fair timers the drawer eventually rests in hidden or open.
C7_AutoAdvance ==
    /\ []C7_Safety
    /\ <>[](mobileMenuDisplayState \in {"hidden", "open"})

C7_Witness ==
    /\ mobileMenuDisplayState = "hidden"
    /\ \E i, j \in 2..Len(navLog) :
          /\ navLog[i].by = "timer" /\ navLog[i].state = "open"
          /\ navLog[j].by = "timer" /\ navLog[j].state = "hidden"

\* C8: selecting a link always requests the scroll to the selected id; it
\* moves the drawer to closing exactly when isMobileMenuReallyOpen (the state
\* is opening or open), and otherwise leaves the state and the pending timer
\* unchanged.
C8_LinkSelection ==
    [][(IsUserStep /\ lastEvent'.type = "link") =>
          /\ lastScrollRequest' = lastEvent'.id
          /\ IF mobileMenuDisplayState \in {"opening", "open"}
             THEN /\ isMobileMenuReallyOpen
                  /\ mobileMenuDisplayState' = "closing"
                  /\ \E tm \in navTimers' : tm.target = "hidden" /\ tm.due = now + RippleCloseMs
             ELSE /\ ~isMobileMenuReallyOpen
                  /\ UNCHANGED <<mobileMenuDisplayState, navTimers, isMobileMenuReallyOpen>>]_vars

C8_Witness ==
    /\ Len(navLog) = 3
    /\ navLog[2].state = "opening"
    /\ navLog[3].state = "closing" /\ navLog[3].by = "link"
    /\ nUser = 3 /\ lastEvent = [type |-> "link", id |-> "skills"]
    /\ mobileMenuDisplayState = "closing" /\ lastScrollRequest = "skills"
    /\ now > navLog[3].t

(***************************************************************************)
(* Properties of the active-section tracker                                *)
(***************************************************************************)

\* The observer has nothing left to notify.
ObserverSettled == deliveries # <<>> /\ Entries = <<>>

\* C9, as stated: the tracker considers every mounted region, also one that
\* mounted after the observer was created: once the observer has notified
\* what it sees, a mounted region that alone overlaps the central band is the
\* active one.
C9_LoneRegionInBandIsActive ==
    \A id \in mounted :
        (ObserverSettled /\ inBand = {id}) => activeSectionId = id

AllEntries ==
    {deliveries[i][j] : <<i, j>> \in
        {p \in (DOMAIN deliveries) \X (1..Cardinality(SectionIds)) :
            p[2] \in DOMAIN deliveries[p[1]]}}

LastDelivery == deliveries[Len(deliveries)]

\* The active id is never null: it is the default or the id of an entry that
\* was notified as intersecting.
ActiveIsDefaultOrReported ==
    /\ activeSectionId # Null
    /\ \/ activeSectionId = "hero"
       \/ \E e \in AllEntries : e.isIntersecting /\ e.id = activeSectionId

\* C10: the active-section id is never null: it starts as 'hero', is only
\* overwritten with the id of a region notified as intersecting, and a
\* notification whose entries are all non-intersecting leaves it unchanged.
C10_ActiveNeverNull ==
    /\ []ActiveIsDefaultOrReported
    /\ [][/\ activeSectionId' # activeSectionId =>
                /\ deliveries' # deliveries
                /\ \E i \in DOMAIN LastDelivery' :
                      /\ LastDelivery'[i].isIntersecting
                      /\ LastDelivery'[i].id = activeSectionId'
          /\ (/\ deliveries' # deliveries
              /\ \A i \in DOMAIN LastDelivery' : ~LastDelivery'[i].isIntersecting)
                => activeSectionId' = activeSectionId]_vars

C10_Witness ==
    /\ Len(deliveries) >= 2
    /\ \A i \in DOMAIN LastDelivery : ~LastDelivery[i].isIntersecting
    /\ mounted = SectionIds
    /\ inBand = {"skills"}
    /\ activeSectionId = "hero"

(***************************************************************************)
(* The theme controller: C11, C12, C19                                     *)
(***************************************************************************)

\* Startup has settled: every effect has run, every queued update is rendered.
ThemeSettled == themeEffects = <<>> /\ themeQueue = <<>>

\* C11: once startup has settled (and before any toggle) the theme is the
\* value persisted before startup if there was one, else dark when the system
\* prefers dark, else light.
C11_StartupTheme ==
    (ThemeSettled /\ nToggles = 0) =>
        theme = StartupUpdate(initialStore, prefersDark)

\* The number of "flip" updates in a queue.
RECURSIVE Flips(_)
Flips(q) ==
    IF q = <<>> THEN 0
    ELSE (IF Head(q) = "flip" THEN 1 ELSE 0) + Flips(Tail(q))

\* C12: a toggle flips the theme to the other of the two values whatever the
\* state (a render of k toggles flips it k times), and once the effects of a
\* commit have run, the store key and the data-theme attribute both equal the
\* current theme.
C12_TogglePersisted ==
    /\ [](themeEffects = <<>> => (store = theme /\ dataTheme = theme))
    /\ [](theme \in Themes)
    /\ [][(themeQueue # <<>> /\ themeQueue' = <<>> /\ Flips(themeQueue) = Len(themeQueue))
            => (theme' # theme <=> Flips(themeQueue) % 2 = 1)]_vars

C12_Witness ==
    /\ ThemeSettled
    /\ nToggles = 2
    /\ initialStore = "light"
    /\ theme = "dark"
    /\ store = "dark"
    /\ dataTheme = "dark"

\* C19: from startup until the first toggle the store holds the value it held
\* when the app started, if it held one.
C19_StartupKeepsStore ==
    (initialStore # NoItem /\ nToggles = 0) => store = initialStore

(***************************************************************************)
(* The navigation drawer's timer: C20                                      *)
(***************************************************************************)

\* The pending timer belongs to the current display state: it was set when
\* that state was entered, with that state's target and delay.
TimerOfCurrentState(tm) ==
    \/ /\ mobileMenuDisplayState = "opening"
       /\ tm = [target |-> "open", due |-> EnteredAt + RippleOpenMs]
    \/ /\ mobileMenuDisplayState = "closing"
       /\ tm = [target |-> "hidden", due |-> EnteredAt + RippleCloseMs]

\* C20: at most one auto-advance timer is pending and it corresponds to the
\* current display state (every change of the state cancels the timer of the
\* state before), so no step takes the state from closing to open or from
\* opening to hidden.
C20_OneTimerOfCurrentState ==
    /\ [](/\ Cardinality(navTimers) <= 1
          /\ \A tm \in navTimers : TimerOfCurrentState(tm))
    /\ [][/\ mobileMenuDisplayState = "closing" => mobileMenuDisplayState' # "open"
          /\ mobileMenuDisplayState = "opening" => mobileMenuDisplayState' # "hidden"]_vars

\* The drawer left opening for closing, and the time at which the opening
\* timer would have fired has come: only the closing timer is pending.
C20_Witness ==
    /\ Len(navLog) >= 3
    /\ mobileMenuDisplayState = "closing"
    /\ navLog[Len(navLog) - 1].state = "opening"
    /\ now >= navLog[Len(navLog) - 1].t + RippleOpenMs
    /\ Cardinality(navTimers) = 1

(***************************************************************************)
(* The typewriter: C15, C16, C17                                           *)
(***************************************************************************)

IsPrefix(s, t) == Len(s) <= Len(t) /\ SubSeq(t, 1, Len(s)) = s

\* The shown text is a prefix of the target, of the length currentIndex.
TwShape ==
    /\ IsPrefix(typedNameChars, fullName)
    /\ Len(typedNameChars) = currentIndex

\* A step in which a timer of the typewriter fires.
TwTimerStep == twTimerId' # twTimerId

TwGrows == Len(typedNameChars') = Len(typedNameChars) + 1

TwShrinks == Len(typedNameChars') = Len(typedNameChars) - 1

\* A step that turns the direction round and leaves the text as it is, at the
\* full string (forward to backward) or at the empty one (backward to forward).
TwTurns ==
    /\ typedNameChars' = typedNameChars
    /\ isTypingForward' # isTypingForward
    /\ Len(typedNameChars) = IF isTypingForward THEN Len(fullName) ELSE 0

\* The length grows only while the direction is forward and shrinks only
\* while it is backward, by one character; the direction flips only at the
\* full string and at the empty one.
TwDirectionRule ==
    /\ TwGrows \/ TwShrinks \/ Len(typedNameChars') = Len(typedNameChars)
    /\ TwGrows => (isTypingForward /\ isTypingForward')
    /\ TwShrinks => (~isTypingForward /\ ~isTypingForward')
    /\ isTypingForward' # isTypingForward => TwTurns

\* C15: the shown text is a prefix of the target string with a length in
\* 0..N; the length grows only forward and shrinks only backward, the
\* direction flips only at N and at 0; and each timer step changes the
\* length by exactly one character.
C15_EveryTimerStepChangesLength ==
    /\ []TwShape
    /\ [][TwDirectionRule /\ (TwTimerStep => (TwGrows \/ TwShrinks))]_vars

\* C15, as the code has it: each timer step changes the length by exactly one
\* character, or it is the step of the pause timer at N or at 0, which flips
\* the direction and leaves the text as it is.
C15_TimerStepChangesLengthOrTurns ==
    /\ []TwShape
    /\ [][TwDirectionRule /\ (TwTimerStep => (TwGrows \/ TwShrinks \/ TwTurns))]_vars

C15_Witness ==
    /\ ~isTypingForward
    /\ twLast = "remove"
    /\ Len(typedNameChars) = Len(fullName) - 1
    /\ twSince = 0

\* C16: the typewriter never stops: with the timers firing, the shown text is
\* the full string again and again and empty again and again, and in every
\* state exactly one timer of the typewriter is pending.
C16_CycleNeverEnds ==
    /\ []<>(typedNameChars = fullName)
    /\ []<>(typedNameChars = <<>>)
    /\ [](Cardinality(twTimers) = 1)

\* A whole cycle is behind, and the pause before the next one is running.
C16_Witness ==
    /\ typedNameChars = <<>>
    /\ twLast = "remove"
    /\ Cardinality(twTimers) = 1
    /\ \E tm \in twTimers : tm.kind = "toForward" /\ tm.left < pauseAtEndDuration

\* The time between two changes of the text, by the kind of the change
\* before and the kind of this one; `atFull` is the time between the N-th
\* append and the first removal, `atEmpty` the time between the last removal
\* and the first append of the next cycle.
TwSpacing(atFull, atEmpty) ==
    /\ (TwGrows /\ twLast = "append") => twSince = typingSpeed
    /\ (TwShrinks /\ twLast = "remove") => twSince = backspaceSpeed
    /\ (TwShrinks /\ twLast = "append") => twSince = atFull
    /\ (TwGrows /\ twLast = "remove") => twSince = atEmpty

\* C17: consecutive appends are Tf ms apart and consecutive removals Tb ms
\* apart; the first removal happens P ms after the N-th append and the first
\* append of the next cycle P ms after the last removal.
C17_HeldForPause ==
    [][TwSpacing(pauseAtEndDuration, pauseAtEndDuration)]_vars

\* C17, as the code has it: the pause timer only flips the direction, and the
\* first removal (append) comes one backspace (typing) interval after it:
\* P + Tb ms after the N-th append, P + Tf ms after the last removal.
C17_HeldForPausePlusStep ==
    [][TwSpacing(pauseAtEndDuration + backspaceSpeed,
                 pauseAtEndDuration + typingSpeed)]_vars

\* The first append of the next cycle is due.
C17_Witness ==
    /\ typedNameChars = <<>>
    /\ twLast = "remove"
    /\ isTypingForward
    /\ twSince = pauseAtEndDuration + typingSpeed

(***************************************************************************)
(* The visibility hook: C13, C14                                           *)
(***************************************************************************)

\* C13: with triggerOnce, whatever the intersection events and rebinds, the
\* visible signal stays true once it is true, and after the first
\* intersecting event of the bound element that element is not observed any
\* more: nothing is queued for it and the signal stays as it is.
C13_OnceVisibleStaysVisible ==
    /\ [](triggerOnce => (/\ visHandled \cap visTargets = {}
                          /\ visHandled # {} => (isIntersecting /\ visQueue = <<>>)))
    /\ [][(triggerOnce /\ isIntersecting) => isIntersecting']_vars

\* The bound element was seen intersecting and has left the view since.
C13_Witness ==
    /\ triggerOnce
    /\ isIntersecting
    /\ element \in visHandled
    /\ element \notin visInView
    /\ nVisEvents >= 2

\* C14: with triggerOnce false, after every delivery of entries for the bound
\* element the visible signal is the status of the most recent entry, also
\* when the delivery carries more than one entry.
C14_SignalIsLatestStatus ==
    [][(~triggerOnce /\ visQueue # <<>> /\ visQueue' = <<>> /\ element' = element)
          => isIntersecting' = visQueue[Len(visQueue)].isIntersecting]_vars

(***************************************************************************)
(* The unmount of the page: C18                                            *)
(***************************************************************************)

\* No timer of the page is pending.
NoPageTimerPending == navTimers = {} /\ twTimers = {} /\ timers = {}

\* No observer of the page has a target.
NoObserverSubscribed == visTargets = {} /\ observed = <<>>

\* The throttled callback (setMousePos) has not run since the unmount.
NoSetterSinceUnmount == Len(execs) = execsAtUnmount

\* C18: once the page has unmounted, no timer is pending (nav, typewriter,
\* throttler), no observer remains subscribed (visibility, active section)
\* and no state setter is called.
C18_AllReleasedOnUnmount ==
    ~pageMounted => (NoPageTimerPending /\ NoObserverSubscribed /\ NoSetterSinceUnmount)

(***************************************************************************)
(* The two state variables of the drawer: C21                              *)
(***************************************************************************)

\* C21: in every state of Header, isMobileMenuReallyOpen is true exactly when
\* mobileMenuDisplayState is opening or open; so aria-expanded is true
\* exactly in opening and open, and aria-hidden exactly in hidden.
C21_OpenFlagAgreesWithState ==
    /\ isMobileMenuReallyOpen <=> mobileMenuDisplayState \in {"opening", "open"}
    /\ AriaExpanded <=> mobileMenuDisplayState \in {"opening", "open"}
    /\ AriaHidden <=> mobileMenuDisplayState = "hidden"

\* The drawer was opened by a toggle, became open by its timer and is being
\* closed by a link selection.
C21_Witness ==
    /\ Len(navLog) = 4
    /\ navLog[2].by = "toggle"
    /\ navLog[3] = [state |-> "open", t |-> navLog[2].t + RippleOpenMs, by |-> "timer"]
    /\ navLog[4].by = "link"
    /\ mobileMenuDisplayState = "closing"
    /\ ~isMobileMenuReallyOpen
    /\ ~AriaExpanded
    /\ ~AriaHidden

====
